---- MODULE Spec2Model ----
(***************************************************************************)
(* Model of scripts/build_sqlite_warehouse.py: the batch that cleans a raw *)
(* sales CSV, builds four dimension tables and a fact table in SQLite.     *)
(*                                                                         *)
(* Representation of values                                                *)
(*   text     a sequence of tokens; a token is a word with a casing        *)
(*            style, [w |-> word in lower case, c |-> style]; the blank    *)
(*            token SP is one whitespace character.                        *)
(*   number   [k |-> "num", v |-> value in hundredths], [k |-> "nan"] or   *)
(*            [k |-> "inf"] (a float64 as pandas.to_numeric yields it).    *)
(*   time     [k |-> "dt", y, m, d, h] or [k |-> "nat"] (NaT).             *)
(*   key      [isna |-> FALSE, v |-> n] or NA (a nullable integer).        *)
(*                                                                         *)
(* Left out: the FileNotFoundError of lines 34-35 (the file is there), the *)
(* CSV exports of lines 251-256 (they read the tables and change nothing), *)
(* and failures of the storage itself.  Numbers stay far inside the range  *)
(* of int64, so the float-to-integer casts never overflow.                 *)
(***************************************************************************)
EXTENDS Integers, Sequences, FiniteSets, TLC

VARIABLES
  file,     \* the CSV as read by pd.read_csv: [columns, rows]
  pc,       \* position of main() in the script
  cols,     \* InvoiceCol .. CountryCol: the headers col() returned
  df,       \* the data frame main() keeps reassigning
  fact,     \* the merged frame `fact` (lines 198-220)
  db,       \* the SQLite file: five tables and their sqlite_sequence rows
  log,      \* what the run printed after the schema was created
  error,    \* the exception that ended the run, if any
  dbStart   \* history: db as it was when this run started

vars == <<file, pc, cols, df, fact, db, log, error, dbStart>>

\* ------------------------------------------------------------------ bounds

\* Largest number of data rows of an input file.
MaxRows == 2

\* ------------------------------------------------------------------- text

W(w, c) == [w |-> w, c |-> c]
SP == W(" ", "lower")

\* str.lower(): every character loses its case, whitespace is kept.
Lower(s) == [i \in 1..Len(s) |-> W(s[i].w, "lower")]

RECURSIVE LStrip(_)
LStrip(s) == IF s # <<>> /\ Head(s) = SP THEN LStrip(Tail(s)) ELSE s

RECURSIVE RStrip(_)
RStrip(s) ==
  IF s # <<>> /\ s[Len(s)] = SP THEN RStrip(SubSeq(s, 1, Len(s) - 1)) ELSE s

\* str.strip(): leading and trailing whitespace removed, inner kept.
Strip(s) == RStrip(LStrip(s))

\* The eight names main() passes to col(), in call order (lines 41-48).
Required ==
  << <<W("invoice", "Title")>>,
     <<W("stockcode", "Camel")>>,
     <<W("description", "Title")>>,
     <<W("quantity", "Title")>>,
     <<W("invoicedate", "Camel")>>,
     <<W("price", "Title")>>,
     <<W("customer", "Title"), SP, W("id", "UPPER")>>,
     <<W("country", "Title")>> >>

\* Variant of ColMatches: all whitespace is removed, not the surrounding
\* whitespace alone (replace(" ", "") written for strip()).
ColMatchesSqueezed(c, name) ==
  Lower(SelectSeq(c, LAMBDA t : t # SP))
    = Lower(SelectSeq(name, LAMBDA t : t # SP))

\* c.strip().lower() == target, the test of col()'s loop.
ColMatches(c, name) == Lower(Strip(c)) = Lower(Strip(name))

\* The positions of df.columns whose header matches name.
MatchesOf(columns, name) ==
  {i \in 1..Len(columns) : ColMatches(columns[i], name)}

\* col(df, name) finds a column.
ColFound(columns, name) == MatchesOf(columns, name) # {}

\* col(df, name): the first matching header, in column order.
col(columns, name) ==
  columns[CHOOSE i \in MatchesOf(columns, name) :
            \A j \in MatchesOf(columns, name) : i <= j]

\* Lines 41-48 when every name is found: InvoiceCol .. CountryCol.
Mapped(columns) ==
  [ InvoiceCol     |-> col(columns, Required[1]),
    StockCodeCol   |-> col(columns, Required[2]),
    DescriptionCol |-> col(columns, Required[3]),
    QuantityCol    |-> col(columns, Required[4]),
    InvoiceDateCol |-> col(columns, Required[5]),
    PriceCol       |-> col(columns, Required[6]),
    CustomerIdCol  |-> col(columns, Required[7]),
    CountryCol     |-> col(columns, Required[8]) ]

\* The KeyError col() raises: the name asked for and list(df.columns).
KeyError(columns, name) ==
  [kind |-> "KeyError", name |-> name, found |-> columns]

NoError == [kind |-> "none", name |-> <<>>, found |-> <<>>]

\* An exception raised inside pandas while a column is converted.
Raised(kind) == [kind |-> kind, name |-> <<>>, found |-> <<>>]

\* ------------------------------------------------------------ cell values

NaN == [k |-> "nan", v |-> 0]
Inf == [k |-> "inf", v |-> 1]
Num(v) == [k |-> "num", v |-> v]
NaT == [k |-> "nat", y |-> 0, m |-> 0, d |-> 0, h |-> 0]
NA == [isna |-> TRUE, v |-> 0]
Int64(n) == [isna |-> FALSE, v |-> n]

\* pd.to_numeric(errors="coerce") on one cell: a number or "inf" parses, a
\* blank cell or any other text becomes NaN.
ToNumeric(cell) ==
  CASE cell.k = "num" -> Num(cell.v)
    [] cell.k = "inf" -> [k |-> "inf", v |-> cell.v]
    [] OTHER -> NaN

\* pd.to_datetime(errors="coerce") on one cell.
ToDatetime(cell) ==
  IF cell.k = "dt"
    THEN [k |-> "dt", y |-> cell.y, m |-> cell.m, d |-> cell.d, h |-> cell.h]
    ELSE NaT

\* Series.astype(str) on one cell of a text column: a missing cell (NaN)
\* becomes the text "nan".
AsStr(cell) == IF cell.k = "str" THEN cell.s ELSE <<W("nan", "lower")>>

\* x != 0 and x > 0 on float64 (NaN != 0 is True, NaN > 0 is False).
Ne0(x) == ~(x.k = "num" /\ x.v = 0)
Gt0(x) == x.k \in {"num", "inf"} /\ x.v > 0

\* astype(int) raises on a non-finite value and truncates toward zero.
IsFinite(x) == x.k = "num"
AsInt(x) == IF x.v >= 0 THEN x.v \div 100 ELSE -((-x.v) \div 100)

\* astype("Int64") keeps NaN as <NA> and raises TypeError ("cannot safely
\* cast non-equivalent float64 to int64") on a value that is no integer.
SafeInt64(x) == x.k = "nan" \/ (x.k = "num" /\ x.v % 100 = 0)
AsInt64(x) == IF x.k = "nan" THEN NA ELSE Int64(x.v \div 100)

\* str() of a nullable integer.
StrOfInt64(x) ==
  IF x.isna THEN <<W("<na>", "UPPER")>> ELSE <<W(ToString(x.v), "lower")>>

GUEST == <<W("guest", "UPPER")>>

\* The texts line 73 replaces by "GUEST".
MissingTexts ==
  { <<W("<na>", "UPPER")>>, <<W("nan", "lower")>>, <<W("none", "Title")>> }

\* Lines 71-73 on one cell of the Customer ID column (defined when
\* SafeInt64 holds of ToNumeric(cell)).
CustomerId(cell) ==
  LET s == Strip(StrOfInt64(AsInt64(ToNumeric(cell))))
  IN  IF s \in MissingTexts THEN GUEST ELSE s

\* strftime("%b").
MonthAbbr ==
  << "Jan", "Feb", "Mar", "Apr", "May", "Jun",
     "Jul", "Aug", "Sep", "Oct", "Nov", "Dec" >>

\* (month - 1) // 3 + 1.
Quarter(month) == ((month - 1) \div 3) + 1

\* float(q) * x on float64.
FMul(q, x) ==
  CASE x.k = "num" -> Num(q * x.v)
    [] x.k = "inf" /\ q # 0 -> [k |-> "inf", v |-> IF q > 0 THEN x.v ELSE -x.v]
    [] OTHER -> NaN

\* --------------------------------------------------------- frame operations

\* The position of the column whose header is c.
Pos(columns, c) ==
  CHOOSE i \in 1..Len(columns) :
    columns[i] = c /\ \A j \in 1..Len(columns) : columns[j] = c => i <= j

\* Where each mapped column sits in the rows of df.
Positions(columns, cs) ==
  [ Invoice     |-> Pos(columns, cs.InvoiceCol),
    StockCode   |-> Pos(columns, cs.StockCodeCol),
    Description |-> Pos(columns, cs.DescriptionCol),
    Quantity    |-> Pos(columns, cs.QuantityCol),
    InvoiceDate |-> Pos(columns, cs.InvoiceDateCol),
    Price       |-> Pos(columns, cs.PriceCol),
    CustomerID  |-> Pos(columns, cs.CustomerIdCol),
    Country     |-> Pos(columns, cs.CountryCol) ]

\* Lines 52-53: parse the timestamps, keep the rows that parsed.
ParseDates(d, p) ==
  SelectSeq([i \in 1..Len(d) |->
               [d[i] EXCEPT ![p.InvoiceDate] = ToDatetime(@)]],
            LAMBDA r : r[p.InvoiceDate].k # "nat")

\* Lines 56-58: parse Quantity and Price, keep the rows where both parsed.
ParseNumeric(d, p) ==
  SelectSeq([i \in 1..Len(d) |->
               [d[i] EXCEPT ![p.Quantity] = ToNumeric(@),
                            ![p.Price] = ToNumeric(@)]],
            LAMBDA r : r[p.Quantity].k # "nan" /\ r[p.Price].k # "nan")

\* Variant of FilterInvalid: Quantity > 0 written for Quantity != 0, so
\* that returns are removed too.
FilterInvalidPositive(d, p) ==
  SelectSeq(d, LAMBDA r : Gt0(r[p.Quantity]) /\ Gt0(r[p.Price]))

\* Line 61: keep returns, remove zero quantities and non-positive prices.
FilterInvalid(d, p) ==
  SelectSeq(d, LAMBDA r : Ne0(r[p.Quantity]) /\ Gt0(r[p.Price]))

\* Line 72 raises when some Customer ID is numeric and not integral.
CustomerCastOk(d, p) ==
  \A i \in 1..Len(d) : SafeInt64(ToNumeric(d[i][p.CustomerID]))

\* Lines 64-73 on a frame for which CustomerCastOk holds: the text columns
\* as stripped strings, the new column customer_id.
Standardize(d, p) ==
  [i \in 1..Len(d) |->
    [ Invoice     |-> Strip(AsStr(d[i][p.Invoice])),
      StockCode   |-> Strip(AsStr(d[i][p.StockCode])),
      Description |-> Strip(AsStr(d[i][p.Description])),
      Country     |-> Strip(AsStr(d[i][p.Country])),
      InvoiceDate |-> d[i][p.InvoiceDate],
      Quantity    |-> d[i][p.Quantity],
      Price       |-> d[i][p.Price],
      customer_id |-> CustomerId(d[i][p.CustomerID]) ]]

\* Line 88 raises ("Cannot convert non-finite values (NA or inf) to
\* integer") when some Quantity is infinite.
QuantityCastOk(d) == \A i \in 1..Len(d) : IsFinite(d[i].Quantity)

\* Lines 76-91 on one row; strftime gives no text for a missing time.
DeriveRow(r) ==
  LET t == r.InvoiceDate
      q == AsInt(r.Quantity)
  IN [ invoice_no       |-> r.Invoice,
       invoice_datetime |-> IF t.k = "dt" THEN <<t.y, t.m, t.d, t.h>> ELSE <<>>,
       full_date        |-> IF t.k = "dt" THEN <<t.y, t.m, t.d>> ELSE <<>>,
       year             |-> t.y,
       month            |-> t.m,
       month_name       |-> MonthAbbr[t.m],
       quarter          |-> Quarter(t.m),
       stock_code       |-> r.StockCode,
       description      |-> r.Description,
       country          |-> r.Country,
       customer_id      |-> r.customer_id,
       quantity         |-> q,
       unit_price       |-> r.Price,
       revenue          |-> FMul(q, r.Price),
       is_return        |-> IF q < 0 THEN 1 ELSE 0 ]

\* Lines 76-91 on a frame for which QuantityCastOk holds.
Derive(d) == [i \in 1..Len(d) |-> DeriveRow(d[i])]

\* ---------------------------------------------------------------- SQLite

\* A table: whether it exists, its rows in rowid order, and its row of
\* sqlite_sequence (the largest rowid AUTOINCREMENT ever gave out).
NoTable == [exists |-> FALSE, rows |-> <<>>, seq |-> 0]
EmptyTable == [exists |-> TRUE, rows |-> <<>>, seq |-> 0]

NoTables ==
  [ dim_customer |-> NoTable, dim_product |-> NoTable,
    dim_country |-> NoTable, dim_date |-> NoTable, fact_sales |-> NoTable ]

\* Variant of CreateSchema: no DROP TABLE, and CREATE TABLE IF NOT EXISTS.
CreateSchemaKeep(d) ==
  [t \in DOMAIN d |-> IF d[t].exists THEN d[t] ELSE EmptyTable]

\* Lines 100-152: DROP TABLE IF EXISTS for the five tables (which also
\* deletes their sqlite_sequence rows), then CREATE TABLE for each.
CreateSchema(d) ==
  [ dim_customer |-> EmptyTable, dim_product |-> EmptyTable,
    dim_country |-> EmptyTable, dim_date |-> EmptyTable,
    fact_sales |-> EmptyTable ]

\* DataFrame.drop_duplicates(): the first occurrence of each row is kept.
RECURSIVE DropDuplicates(_)
DropDuplicates(s) ==
  IF s = <<>> THEN <<>>
  ELSE LET init == DropDuplicates(SubSeq(s, 1, Len(s) - 1))
           x == s[Len(s)]
       IN IF \E i \in 1..Len(init) : init[i] = x THEN init
          ELSE Append(init, x)

\* INSERT OR IGNORE INTO dim(...) SELECT ... FROM tmp: row after row; a
\* row whose natural key (the UNIQUE columns, nk) is in the table already
\* is skipped, any other gets the next AUTOINCREMENT key.
RECURSIVE InsertOrIgnore(_, _)
InsertOrIgnore(t, tmp) ==
  IF tmp = <<>> THEN t
  ELSE LET r == Head(tmp)
           t1 == IF \E i \in 1..Len(t.rows) : t.rows[i].nk = r.nk THEN t
                 ELSE [t EXCEPT
                         !.rows = Append(@, [key |-> t.seq + 1, nk |-> r.nk,
                                             attrs |-> r.attrs]),
                         !.seq = @ + 1]
       IN InsertOrIgnore(t1, Tail(tmp))

\* The columns each dimension is loaded from: the UNIQUE ones as nk,
\* the others as attrs.
CustomerColumns(d) ==
  [i \in 1..Len(d) |-> [nk |-> <<d[i].customer_id>>, attrs |-> <<>>]]
ProductColumns(d) ==
  [i \in 1..Len(d) |->
    [nk |-> <<d[i].stock_code, d[i].description>>, attrs |-> <<>>]]
CountryColumns(d) ==
  [i \in 1..Len(d) |-> [nk |-> <<d[i].country>>, attrs |-> <<>>]]
DateColumns(d) ==
  [i \in 1..Len(d) |->
    [nk |-> <<d[i].full_date>>,
     attrs |-> <<d[i].year, d[i].month, d[i].month_name, d[i].quarter>>]]

\* Variant of LoadDimension: drop_duplicates(subset=<first column>), so
\* that of the rows alike in their first column only the first is loaded.
LoadDimensionFirstColumn(t, columns) ==
  LET u == DropDuplicates(columns)
  IN InsertOrIgnore(t,
       SelectSeq(u, LAMBDA r : \A j \in 1..Len(u) :
                   u[j].nk[1] = r.nk[1] => \E k \in 1..j : u[k] = r))

\* Lines 157-159, 162-169, 172-174, 177-186: the distinct rows go to a
\* temporary table, from there into the dimension; the temporary table is
\* dropped.
LoadDimension(t, columns) == InsertOrIgnore(t, DropDuplicates(columns))

\* DataFrame.merge(dim, on=..., how="left"): every left row once per
\* dimension row with the same values in the `on` columns, in left order;
\* a left row without any gets a missing key.
RECURSIVE MergeLeft(_, _, _, _)
MergeLeft(f, dim, on, keyName) ==
  IF f = <<>> THEN <<>>
  ELSE LET r == Head(f)
           nk == [j \in 1..Len(on) |-> r[on[j]]]
           hits == SelectSeq(dim, LAMBDA e : e.nk = nk)
           out == IF hits = <<>> THEN << r @@ (keyName :> NA) >>
                  ELSE [j \in 1..Len(hits) |->
                          r @@ (keyName :> Int64(hits[j].key))]
       IN out \o MergeLeft(Tail(f), dim, on, keyName)

\* Variant of MergeKeys: the product merge is on stock_code alone.
MergeKeysByStockCode(d, base) ==
  MergeLeft(
    MergeLeft(
      MergeLeft(
        MergeLeft(d, base.dim_date.rows, <<"full_date">>, "date_key"),
        base.dim_customer.rows, <<"customer_id">>, "customer_key"),
      base.dim_country.rows, <<"country">>, "country_key"),
    [j \in 1..Len(base.dim_product.rows) |->
       [base.dim_product.rows[j] EXCEPT !.nk = <<@[1]>>]],
    <<"stock_code">>, "product_key")

\* Variant of MergeKeys: the country merge reads dim_customer.
MergeKeysCountryFromCustomer(d, base) ==
  MergeLeft(
    MergeLeft(
      MergeLeft(
        MergeLeft(d, base.dim_date.rows, <<"full_date">>, "date_key"),
        base.dim_customer.rows, <<"customer_id">>, "customer_key"),
      base.dim_customer.rows, <<"country">>, "country_key"),
    base.dim_product.rows, <<"stock_code", "description">>, "product_key")

\* Lines 193-220: the four left merges.
MergeKeys(d, base) ==
  MergeLeft(
    MergeLeft(
      MergeLeft(
        MergeLeft(d, base.dim_date.rows, <<"full_date">>, "date_key"),
        base.dim_customer.rows, <<"customer_id">>, "customer_key"),
      base.dim_country.rows, <<"country">>, "country_key"),
    base.dim_product.rows, <<"stock_code", "description">>, "product_key")

\* Variant of Missing: product_key is left out of the columns counted.
MissingWithoutProduct(f) ==
  << Cardinality({i \in 1..Len(f) : f[i].date_key.isna}),
     Cardinality({i \in 1..Len(f) : f[i].customer_key.isna}),
     Cardinality({i \in 1..Len(f) : f[i].country_key.isna}), 0 >>

\* Line 222: fact[[...]].isna().sum(), in the order date, customer,
\* country, product.
CountNA(f, keyName) == Cardinality({i \in 1..Len(f) : f[i][keyName].isna})
Missing(f) ==
  << CountNA(f, "date_key"), CountNA(f, "customer_key"),
     CountNA(f, "country_key"), CountNA(f, "product_key") >>

\* Lines 226-242: fact_out appended to fact_sales, each row with the next
\* line_id.
AppendFacts(t, f) ==
  [ exists |-> TRUE,
    rows |-> t.rows \o
      [i \in 1..Len(f) |->
        [ line_id          |-> t.seq + i,
          invoice_no       |-> f[i].invoice_no,
          invoice_datetime |-> f[i].invoice_datetime,
          date_key         |-> f[i].date_key,
          customer_key     |-> f[i].customer_key,
          product_key      |-> f[i].product_key,
          country_key      |-> f[i].country_key,
          quantity         |-> f[i].quantity,
          unit_price       |-> f[i].unit_price,
          revenue          |-> f[i].revenue,
          is_return        |-> f[i].is_return ]],
    seq |-> t.seq + Len(f) ]

\* ----------------------------------------------------------------- inputs

\* Cells as pd.read_csv leaves them (a blank cell of a text column would be
\* NaN as well; the files below have none).
Str(s) == [k |-> "str", s |-> s]
RawNum(v) == [k |-> "num", v |-> v]
RawInf == [k |-> "inf", v |-> 1]
RawBlank == [k |-> "blank", v |-> 0]
RawText == [k |-> "text", v |-> 0]
RawDt(y, m, d, h) == [k |-> "dt", y |-> y, m |-> m, d |-> d, h |-> h]
RawBadDate == [k |-> "text", y |-> 0, m |-> 0, d |-> 0, h |-> 0]

Lantern == <<W("white", "UPPER"), SP, W("metal", "UPPER"), SP, W("lantern", "UPPER")>>
UnitedKingdom == <<W("united", "Title"), SP, W("kingdom", "Title")>>

\* Invoice 536365, 71053, WHITE METAL LANTERN, 6, 2010-12-01 08:26, 3.39,
\* 17850, United Kingdom; cells in the order of Required.
BaseRow ==
  << Str(<<W("536365", "lower")>>), Str(<<W("71053", "lower")>>),
     Str(Lantern), RawNum(600), RawDt(2010, 12, 1, 8), RawNum(339),
     RawNum(1785000), Str(UnitedKingdom) >>

\* Other cells a column may hold.
OtherCells ==
  << { },
     { Str(<<W("22752", "lower")>>) },
     { Str(Lantern \o <<SP>>), Str(<<W("heart", "UPPER")>>) },
     { RawText, RawNum(0), RawNum(50), RawNum(-100), RawInf },
     { RawBadDate, RawDt(2010, 12, 1, 9), RawDt(2011, 1, 4, 10) },
     { RawText, RawNum(0), RawNum(-100) },
     { RawBlank, RawText, RawNum(1785050), RawNum(1234500) },
     { Str(<<SP, W("france", "Title")>>) } >>

\* The rows of the input files: BaseRow with at most one cell replaced.
Rows ==
  {BaseRow} \cup
  UNION {{[BaseRow EXCEPT ![j] = x] : x \in OtherCells[j]} :
         j \in 1..Len(BaseRow)}

\* The rows of the files used where runs follow one another.
FewRows ==
  { BaseRow,
    [BaseRow EXCEPT ![3] = Str(<<W("heart", "UPPER")>>)],
    [BaseRow EXCEPT ![4] = RawNum(0)],
    [BaseRow EXCEPT ![7] = RawBlank],
    [BaseRow EXCEPT ![7] = RawNum(1785050)] }

\* The rows of the files given to the resolver on its own: between them
\* they differ in every natural key.
ResolverRows ==
  { BaseRow,
    [BaseRow EXCEPT ![3] = Str(<<W("heart", "UPPER")>>),
                    ![5] = RawDt(2011, 1, 4, 10)],
    [BaseRow EXCEPT ![7] = RawBlank, ![8] = Str(<<W("france", "Title")>>)] }

\* Headers a file may carry in place of a required name.
Headers(name) ==
  { name,
    <<SP>> \o [i \in 1..Len(name) |-> W(name[i].w, "UPPER")] \o <<SP>>,
    SelectSeq(name, LAMBDA t : t # SP),
    name \o <<SP, W("no", "Title")>> }

\* The header rows: the required names with one replaced, or with two.
OneHeaderOff ==
  UNION {{[Required EXCEPT ![i] = a] : a \in Headers(Required[i])} :
         i \in 1..Len(Required)}
TwoHeadersOff ==
  UNION {{[h EXCEPT ![j] = b] : b \in Headers(Required[j]), h \in OneHeaderOff} :
         j \in 1..Len(Required)}

Reverse(s) == [i \in 1..Len(s) |-> s[Len(s) + 1 - i]]

\* Input files: the header rows H over one data row; the required header
\* row over up to MaxRows rows of R; the columns in reverse order.
HeaderFiles(H) == {[columns |-> h, rows |-> <<BaseRow>>] : h \in H}
RowFiles(R) ==
  {[columns |-> Required, rows |-> rs] :
     rs \in UNION {[1..n -> R] : n \in 0..MaxRows}}
ReversedFiles(R) ==
  {[columns |-> Reverse(Required), rows |-> <<Reverse(r)>>] : r \in R}

Files == HeaderFiles(TwoHeadersOff) \cup RowFiles(Rows) \cup ReversedFiles(Rows)
FewFiles == HeaderFiles(OneHeaderOff) \cup RowFiles(FewRows) \cup ReversedFiles(FewRows)
ResolverFiles == RowFiles(ResolverRows)

\* ------------------------------------------------------------------ state

NoCols ==
  [ InvoiceCol |-> <<>>, StockCodeCol |-> <<>>, DescriptionCol |-> <<>>,
    QuantityCol |-> <<>>, InvoiceDateCol |-> <<>>, PriceCol |-> <<>>,
    CustomerIdCol |-> <<>>, CountryCol |-> <<>> ]

\* main() starts on a file that exists and was read (lines 33-38); the
\* destination holds what earlier runs left.
Start(f, d) ==
  /\ file = f
  /\ pc = "map"
  /\ cols = NoCols
  /\ df = f.rows
  /\ fact = <<>>
  /\ db = d
  /\ log = <<>>
  /\ error = NoError
  /\ dbStart = d

Init == \E f \in Files : Start(f, NoTables)

\* The run ends with the exception e.
Fail(e) == pc' = "failed" /\ error' = e

\* Lines 41-48: the eight calls of col(), in order; the first name without
\* a column raises.
MapColumns ==
  /\ pc = "map"
  /\ LET absent == {n \in 1..Len(Required) :
                      ~ColFound(file.columns, Required[n])}
     IN IF absent # {}
        THEN /\ Fail(KeyError(file.columns,
                       Required[CHOOSE n \in absent : \A k \in absent : n <= k]))
             /\ UNCHANGED cols
        ELSE /\ cols' = Mapped(file.columns)
             /\ pc' = "dates"
             /\ UNCHANGED error
  /\ UNCHANGED <<file, df, fact, db, log, dbStart>>

P == Positions(file.columns, cols)

\* Lines 52-53.
CleanDates ==
  /\ pc = "dates"
  /\ df' = ParseDates(df, P)
  /\ pc' = "numeric"
  /\ UNCHANGED <<file, cols, fact, db, log, error, dbStart>>

\* Lines 56-58.
CleanNumeric ==
  /\ pc = "numeric"
  /\ df' = ParseNumeric(df, P)
  /\ pc' = "invalid"
  /\ UNCHANGED <<file, cols, fact, db, log, error, dbStart>>

\* Line 61.
CleanInvalid ==
  /\ pc = "invalid"
  /\ df' = FilterInvalid(df, P)
  /\ pc' = "text"
  /\ UNCHANGED <<file, cols, fact, db, log, error, dbStart>>

\* Lines 64-73: astype("Int64") raises TypeError on a Customer ID that is
\* numeric and not integral.
StandardizeText ==
  /\ pc = "text"
  /\ IF CustomerCastOk(df, P)
       THEN df' = Standardize(df, P) /\ pc' = "derive" /\ UNCHANGED error
       ELSE Fail(Raised("TypeError")) /\ UNCHANGED df
  /\ UNCHANGED <<file, cols, fact, db, log, dbStart>>

\* Lines 76-91: astype(int) raises IntCastingNaNError on an infinite
\* Quantity.
DeriveColumns ==
  /\ pc = "derive"
  /\ IF QuantityCastOk(df)
       THEN df' = Derive(df) /\ pc' = "schema" /\ UNCHANGED error
       ELSE Fail(Raised("IntCastingNaNError")) /\ UNCHANGED df
  /\ UNCHANGED <<file, cols, fact, db, log, dbStart>>

\* Lines 95-152.
BuildSchema ==
  /\ pc = "schema"
  /\ db' = CreateSchema(db)
  /\ pc' = "customers"
  /\ UNCHANGED <<file, cols, df, fact, log, error, dbStart>>

\* Lines 157-159.
LoadCustomers ==
  /\ pc = "customers"
  /\ db' = [db EXCEPT !.dim_customer = LoadDimension(@, CustomerColumns(df))]
  /\ pc' = "products"
  /\ UNCHANGED <<file, cols, df, fact, log, error, dbStart>>

\* Lines 162-169.
LoadProducts ==
  /\ pc = "products"
  /\ db' = [db EXCEPT !.dim_product = LoadDimension(@, ProductColumns(df))]
  /\ pc' = "countries"
  /\ UNCHANGED <<file, cols, df, fact, log, error, dbStart>>

\* Lines 172-174.
LoadCountries ==
  /\ pc = "countries"
  /\ db' = [db EXCEPT !.dim_country = LoadDimension(@, CountryColumns(df))]
  /\ pc' = "dateskeys"
  /\ UNCHANGED <<file, cols, df, fact, log, error, dbStart>>

\* Lines 177-188.
LoadDates ==
  /\ pc = "dateskeys"
  /\ db' = [db EXCEPT !.dim_date = LoadDimension(@, DateColumns(df))]
  /\ pc' = "resolve"
  /\ UNCHANGED <<file, cols, df, fact, log, error, dbStart>>

\* Lines 193-220.
ResolveKeys ==
  /\ pc = "resolve"
  /\ fact' = MergeKeys(df, db)
  /\ pc' = "check"
  /\ UNCHANGED <<file, cols, df, db, log, error, dbStart>>

\* Lines 222-224: the warning is printed when some key is missing.
WarnMissing ==
  /\ pc = "check"
  /\ log' = IF \E n \in 1..Len(Missing(fact)) : Missing(fact)[n] > 0
              THEN Append(log, [tag |-> "WARNING: Missing keys after merges",
                                n |-> Missing(fact)])
              ELSE log
  /\ pc' = "load"
  /\ UNCHANGED <<file, cols, df, fact, db, error, dbStart>>

\* Lines 226-243.
LoadFact ==
  /\ pc = "load"
  /\ db' = [db EXCEPT !.fact_sales = AppendFacts(@, fact)]
  /\ pc' = "sanity"
  /\ UNCHANGED <<file, cols, df, fact, log, error, dbStart>>

\* Lines 246-259: the row count and the count per is_return are printed,
\* the tables are exported, the connection is closed.
SanityChecks ==
  /\ pc = "sanity"
  /\ log' = log \o
       << [tag |-> "fact_sales rows", n |-> <<Len(db.fact_sales.rows)>>],
          [tag |-> "is_return",
           n |-> [r \in 1..2 |->
                   Cardinality({i \in 1..Len(db.fact_sales.rows) :
                                  db.fact_sales.rows[i].is_return = r - 1})]] >>
  /\ pc' = "done"
  /\ UNCHANGED <<file, cols, df, fact, db, error, dbStart>>

\* Lines 262-263: the script is started again, on any input file, against
\* the destination as the last run left it.
Rerun ==
  /\ pc \in {"done", "failed"}
  /\ \E f \in FewFiles :
       /\ file' = f
       /\ df' = f.rows
  /\ pc' = "map"
  /\ cols' = NoCols
  /\ fact' = <<>>
  /\ log' = <<>>
  /\ error' = NoError
  /\ dbStart' = db
  /\ UNCHANGED db

Next ==
  \/ MapColumns \/ CleanDates \/ CleanNumeric \/ CleanInvalid
  \/ StandardizeText \/ DeriveColumns \/ BuildSchema
  \/ LoadCustomers \/ LoadProducts \/ LoadCountries \/ LoadDates
  \/ ResolveKeys \/ WarnMissing \/ LoadFact \/ SanityChecks

\* One run of the script on any input file, the destination not yet there.
Spec == Init /\ [][Next]_vars

\* ------------------------------------------------- runs following one another

InitRerun == \E f \in FewFiles : Start(f, NoTables)

NextRerun == Next \/ Rerun

\* Any number of runs, each against what the one before left.
SpecRerun == InitRerun /\ [][NextRerun]_vars

\* --------------------------------------------------- the resolver on its own

\* Lines 50-91 on a file whose columns are all found and whose cells raise
\* nothing: the cleaned frame.
Cleans(f) ==
  /\ \A n \in 1..Len(Required) : ColFound(f.columns, Required[n])
  /\ LET p == Positions(f.columns, Mapped(f.columns))
         kept == FilterInvalid(ParseNumeric(ParseDates(f.rows, p), p), p)
     IN CustomerCastOk(kept, p) /\ QuantityCastOk(Standardize(kept, p))

Cleaned(f) ==
  LET p == Positions(f.columns, Mapped(f.columns))
  IN Derive(Standardize(
       FilterInvalid(ParseNumeric(ParseDates(f.rows, p), p), p), p))

\* Lines 154-188: the four dimensions loaded from the frame d.
LoadDimensions(base, d) ==
  [base EXCEPT
     !.dim_customer = LoadDimension(@, CustomerColumns(d)),
     !.dim_product = LoadDimension(@, ProductColumns(d)),
     !.dim_country = LoadDimension(@, CountryColumns(d)),
     !.dim_date = LoadDimension(@, DateColumns(d))]

\* Lines 93-243 on the frame d: what a run leaves in the destination.
Built(base, d) ==
  LET dims == LoadDimensions(CreateSchema(base), d)
  IN [dims EXCEPT !.fact_sales = AppendFacts(@, MergeKeys(d, dims))]

\* The resolver (line 190 on) given the cleaned records of one file and
\* dimension tables that were loaded from the records of another.
InitResolve ==
  \E fa \in {f \in ResolverFiles : Cleans(f)} :
    \E fb \in {f \in ResolverFiles : Cleans(f)} :
      /\ file = fb
      /\ pc = "resolve"
      /\ cols = Mapped(fb.columns)
      /\ df = Cleaned(fb)
      /\ fact = <<>>
      /\ db = LoadDimensions(CreateSchema(NoTables), Cleaned(fa))
      /\ log = <<>>
      /\ error = NoError
      /\ dbStart = NoTables

NextResolve == ResolveKeys \/ WarnMissing \/ LoadFact \/ SanityChecks

SpecResolve == InitResolve /\ [][NextResolve]_vars

\* ------------------------------------------------------------- properties

\* Two names are the same when they agree with case and surrounding
\* whitespace set aside.
SameName(a, b) == Lower(Strip(a)) = Lower(Strip(b))

Absent(n) ==
  \A i \in 1..Len(file.columns) : ~SameName(file.columns[i], Required[n])
SomeRequiredAbsent == \E n \in 1..Len(Required) : Absent(n)
AllRequiredPresent == ~SomeRequiredAbsent

\* The cell of the raw row r under the required name number n.
RawCell(r, n) ==
  r[CHOOSE i \in 1..Len(file.columns) :
      /\ SameName(file.columns[i], Required[n])
      /\ \A j \in 1..(i - 1) : ~SameName(file.columns[j], Required[n])]

TimestampParses(r) == RawCell(r, 5).k = "dt"
NumbersParse(r) ==
  RawCell(r, 4).k \in {"num", "inf"} /\ RawCell(r, 6).k \in {"num", "inf"}
QuantityAndPriceValid(r) ==
  /\ ~(RawCell(r, 4).k = "num" /\ RawCell(r, 4).v = 0)
  /\ RawCell(r, 6).v > 0
PassesFilters(r) ==
  TimestampParses(r) /\ NumbersParse(r) /\ QuantityAndPriceValid(r)

\* The raw rows the three filters keep, and the number each rule drops.
Passing == SelectSeq(file.rows, PassesFilters)
DroppedByTimestamp ==
  Cardinality({i \in 1..Len(file.rows) : ~TimestampParses(file.rows[i])})
DroppedByNumbers ==
  Cardinality({i \in 1..Len(file.rows) :
    TimestampParses(file.rows[i]) /\ ~NumbersParse(file.rows[i])})
DroppedByValue ==
  Cardinality({i \in 1..Len(file.rows) :
    /\ TimestampParses(file.rows[i]) /\ NumbersParse(file.rows[i])
    /\ ~QuantityAndPriceValid(file.rows[i])})

\* Positions of main().
Filtered ==
  \/ pc \in {"text", "derive", "schema", "customers", "products", "countries",
             "dateskeys", "resolve", "check", "load", "sanity", "done"}
  \/ pc = "failed" /\ error.kind # "KeyError"
Derived ==
  pc \in {"schema", "customers", "products", "countries", "dateskeys",
          "resolve", "check", "load", "sanity", "done"}
DimensionsLoaded == pc \in {"resolve", "check", "load", "sanity", "done"}
FactLoaded == pc \in {"sanity", "done"}

Positive(x) == x.k \in {"num", "inf"} /\ x.v > 0

\* C1: every cleaned record, and every row of fact_sales, has a date, a
\* stored quantity other than 0 and a unit price above 0.
C1_CleanedRecordInvariant ==
  Derived =>
    /\ \A i \in 1..Len(df) :
         df[i].full_date # <<>> /\ df[i].quantity # 0
           /\ Positive(df[i].unit_price)
    /\ \A i \in 1..Len(db.fact_sales.rows) :
         db.fact_sales.rows[i].quantity # 0
           /\ Positive(db.fact_sales.rows[i].unit_price)

\* The natural keys of a cleaned record and of the row a key refers to.
NaturalKey(r, dim) ==
  CASE dim = "dim_date" -> <<r.full_date>>
    [] dim = "dim_customer" -> <<r.customer_id>>
    [] dim = "dim_product" -> <<r.stock_code, r.description>>
    [] dim = "dim_country" -> <<r.country>>
ForeignKey(row, dim) ==
  CASE dim = "dim_date" -> row.date_key
    [] dim = "dim_customer" -> row.customer_key
    [] dim = "dim_product" -> row.product_key
    [] dim = "dim_country" -> row.country_key
Dimensions == {"dim_date", "dim_customer", "dim_product", "dim_country"}

\* The natural keys of the rows of the dimension dim of base that have
\* the surrogate key k.
Referred(base, dim, k) ==
  {base[dim].rows[j].nk : j \in {j \in 1..Len(base[dim].rows) :
                                   ~k.isna /\ base[dim].rows[j].key = k.v}}

\* C2: once the facts are loaded every row of fact_sales has its four keys,
\* and each is the key of the dimension row that carries the natural key of
\* the cleaned record the fact row came from.
C2_ReferentialCompleteness ==
  FactLoaded =>
    \A i \in 1..Len(db.fact_sales.rows) : \A dim \in Dimensions :
      /\ i <= Len(df)
      /\ ~ForeignKey(db.fact_sales.rows[i], dim).isna
      /\ Referred(db, dim, ForeignKey(db.fact_sales.rows[i], dim))
           = {NaturalKey(df[i], dim)}

C2_Witness ==
  /\ pc = "done"
  /\ Len(db.fact_sales.rows) = 2
  /\ db.fact_sales.rows[1].product_key # db.fact_sales.rows[2].product_key

\* C3: once the dimensions are loaded each holds one entry for every
\* natural key of the cleaned records and no other, and no two entries of
\* a dimension share a surrogate key; for products the natural key is the
\* pair (stock_code, description).
C3_OneEntryPerNaturalKey ==
  DimensionsLoaded =>
    \A dim \in Dimensions :
      LET rows == db[dim].rows
      IN /\ {rows[j].nk : j \in 1..Len(rows)}
              = {NaturalKey(df[i], dim) : i \in 1..Len(df)}
         /\ \A j, k \in 1..Len(rows) :
              j # k => rows[j].nk # rows[k].nk /\ rows[j].key # rows[k].key

C3_Witness ==
  /\ pc = "done"
  /\ Len(df) = 2
  /\ df[1].stock_code = df[2].stock_code
  /\ df[1].description # df[2].description
  /\ Len(db.dim_product.rows) = 2
  /\ Len(db.dim_customer.rows) = 1

\* The customer_id the text of a Customer ID cell stands for.
CanonicalCustomer(cell) ==
  IF cell.k = "num" THEN <<W(ToString(cell.v \div 100), "lower")>> ELSE GUEST

\* C4: when lines 64-73 have run, every raw row that passed the filters has
\* its one cleaned record, in order, with the canonical customer_id; the
\* step drops nothing.
C4_CustomerNeverDropsRecord ==
  (pc = "derive" \/ (pc = "failed" /\ error.kind = "TypeError")) =>
    /\ pc = "derive"
    /\ Len(df) = Len(Passing)
    /\ \A i \in 1..Len(df) :
         df[i].customer_id = CanonicalCustomer(RawCell(Passing[i], 7))

\* C5: a file with the eight required columns never ends a run with an
\* exception, whatever its cells hold.
C5_NoRowAbortsRun == AllRequiredPresent => pc # "failed"

\* C6: when a required column has no match the run ends with the KeyError
\* that names a missing column and lists the columns found, and nothing
\* was processed: the frame, the destination and the log are untouched.
C6_MissingColumnFailsFirst ==
  (pc # "map" /\ SomeRequiredAbsent) =>
    /\ pc = "failed"
    /\ error.kind = "KeyError"
    /\ \E n \in 1..Len(Required) : Absent(n) /\ error.name = Required[n]
    /\ error.found = file.columns
    /\ df = file.rows
    /\ fact = <<>>
    /\ log = <<>>
    /\ db = dbStart

C6_Witness ==
  /\ pc = "failed"
  /\ error.kind = "KeyError"
  /\ error.name = Required[7]
  /\ Len(dbStart.fact_sales.rows) = 2

\* The natural key the row a fact row refers to carries, per dimension (no
\* key when the foreign key is missing or dangling).
Structure(base) ==
  [i \in 1..Len(base.fact_sales.rows) |->
    [dim \in Dimensions |->
       Referred(base, dim, ForeignKey(base.fact_sales.rows[i], dim))]]

Counts(base) ==
  [t \in Dimensions \cup {"fact_sales"} |-> Len(base[t].rows)]

\* C7: whatever earlier runs left, a finished run leaves the row counts,
\* the natural keys of the dimensions and the fact-to-dimension structure
\* of a run of the same file on an empty destination.
C7_RebuildReplaces ==
  pc = "done" =>
    /\ Counts(db) = Counts(Built(NoTables, Cleaned(file)))
    /\ Structure(db) = Structure(Built(NoTables, Cleaned(file)))
    /\ \A dim \in Dimensions :
         {db[dim].rows[j].nk : j \in 1..Len(db[dim].rows)}
           = {NaturalKey(df[i], dim) : i \in 1..Len(df)}

C7_Witness ==
  /\ pc = "done"
  /\ Len(dbStart.fact_sales.rows) = 2
  /\ Len(dbStart.dim_product.rows) = 2
  /\ Len(db.fact_sales.rows) = 1
  /\ Len(db.dim_product.rows) = 1

C9_OneFactPerRecord ==
  FactLoaded =>
    /\ Len(db.fact_sales.rows) = Len(df)
    /\ \A i \in 1..Len(df) :
         LET row == db.fact_sales.rows[i]
         IN /\ row.invoice_no = df[i].invoice_no
            /\ row.invoice_datetime = df[i].invoice_datetime
            /\ row.quantity = df[i].quantity
            /\ row.unit_price = df[i].unit_price
            /\ row.revenue = df[i].revenue
            /\ row.is_return = df[i].is_return

C9_Witness ==
  /\ pc = "done"
  /\ Len(df) = 2
  /\ df[1].stock_code = df[2].stock_code
  /\ df[1].description # df[2].description
  /\ db.fact_sales.rows[2].is_return = 0
  /\ db.fact_sales.rows[2].revenue = Num(2034)

\* The cleaned records whose natural key has no entry in a dimension.
Misses(dim) ==
  Cardinality({i \in 1..Len(df) :
    \A j \in 1..Len(db[dim].rows) : db[dim].rows[j].nk # NaturalKey(df[i], dim)})
MissCounts ==
  << Misses("dim_date"), Misses("dim_customer"),
     Misses("dim_country"), Misses("dim_product") >>
Warned(n) ==
  \E k \in 1..Len(log) :
    log[k].tag = "WARNING: Missing keys after merges" /\ log[k].n = n

\* C10: the resolver does not abort; given dimensions that lack the natural
\* key of some cleaned record it has printed, once the check of line 222 is
\* past, the warning with the four miss counts; and no row with a missing
\* key is in fact_sales unless that warning was printed before.
C10_MissReported ==
  /\ pc # "failed"
  /\ (pc \in {"load", "sanity", "done"} /\ MissCounts # <<0, 0, 0, 0>>)
       => Warned(MissCounts)
  /\ (\E i \in 1..Len(db.fact_sales.rows) : \E dim \in Dimensions :
        ForeignKey(db.fact_sales.rows[i], dim).isna)
       => Warned(MissCounts)

C10_Witness ==
  /\ pc = "done"
  /\ Len(db.fact_sales.rows) = 2
  /\ db.fact_sales.rows[1].product_key.isna
  /\ ~db.fact_sales.rows[1].customer_key.isna
  /\ db.fact_sales.rows[2].country_key.isna
  /\ Warned(MissCounts)

====
